---- MODULE Spec2Model ----
(***************************************************************************)
(* Tempo-map data model of bpm_analyzer (core/tempo_map.py): Beat,         *)
(* TempoMap, filter_by_confidence, quantize_to_grid and merge_with.        *)
(*                                                                         *)
(* Python floats are modelled as exact rationals <<n, d>> (d > 0, lowest   *)
(* terms), times in seconds.  A raised ValueError is the error kind the    *)
(* specification calls ValidationError.                                    *)
(***************************************************************************)
EXTENDS Integers, Sequences, FiniteSets, TLC

VARIABLES
    tm,        \* the receiver of the transforms (self)
    other,     \* the argument of the last merge_with
    result,    \* what the last call returned, NoMap if it raised
    err,       \* the exception the last call raised, "none" if it returned
    op,        \* the last call: its name, its numeric argument, its beat list
               \* and the other fields handed to the TempoMap constructor
    beat,      \* the last Beat constructed
    blended,   \* merge_with: per beat of self, the index in other.beats it
               \* was blended with, 0 if it was kept on its own
    depth,     \* how many results have become the receiver
    ens,       \* the EnsembleDetector: its configured names, its detectors
               \* and what its last detect call did
    derived,   \* the derived properties last read from tm
    analysis,  \* the last call of AudioAnalyzer.analyze: its configuration
               \* and the AnalysisResult it returned
    batch      \* the BatchProcessor, the output directory and the worker
               \* processes of its last process_files call

vars == <<tm, other, result, err, op, beat, blended, depth, ens,
          derived, analysis, batch>>

----------------------------------------------------------------------------
(* Bounds of the model *)

\* longest beat list handed to the TempoMap constructor
MaxBeats == 2
\* longest list of names in config.ensemble_algorithms
MaxAlgos == 3
\* how many times a behaviour of Spec takes a result as its next receiver
MaxDepth == 2

----------------------------------------------------------------------------
(* Exact rational arithmetic standing for float arithmetic *)

RECURSIVE GCD(_, _)
GCD(a, b) == IF b = 0 THEN a ELSE GCD(b, a % b)

Abs(n) == IF n < 0 THEN -n ELSE n

\* <<1, 0>> and <<-1, 0>> are the float infinities, <<0, 0>> is nan
Norm(n, d) ==
    IF d = 0 THEN <<(IF n > 0 THEN 1 ELSE IF n < 0 THEN -1 ELSE 0), 0>>
    ELSE LET s == IF d < 0 THEN -1 ELSE 1
             g == GCD(Abs(n), Abs(d))
         IN  <<(s * n) \div g, (s * d) \div g>>

R(k) == <<k, 1>>
Zero == R(0)
One == R(1)
RAdd(x, y) == Norm(x[1] * y[2] + y[1] * x[2], x[2] * y[2])
RSub(x, y) == Norm(x[1] * y[2] - y[1] * x[2], x[2] * y[2])
RMul(x, y) == Norm(x[1] * y[1], x[2] * y[2])
RDiv(x, y) == Norm(x[1] * y[2], x[2] * y[1])
RLt(x, y) == x[1] * y[2] < y[1] * x[2]
RLe(x, y) == x[1] * y[2] <= y[1] * x[2]
RAbs(x) == <<Abs(x[1]), x[2]>>
\* k milliseconds, in seconds
Ms(k) == Norm(k, 1000)

----------------------------------------------------------------------------
(* Beat *)

NoBeat == [time |-> R(-1), position |-> 0, confidence |-> Zero]

\* mutant: a confidence of exactly 1 is refused
BeatValidBelowOne(t, p, c) ==
    /\ RLe(Zero, c) /\ RLt(c, One)
    /\ ~RLt(t, Zero)
    /\ ~(p < 1)

\* Beat.__post_init__: the three checks, each raising ValueError
BeatValid(t, p, c) ==
    /\ RLe(Zero, c) /\ RLe(c, One)
    /\ ~RLt(t, Zero)
    /\ ~(p < 1)

MkBeat(t, p, c) == [time |-> t, position |-> p, confidence |-> c]

----------------------------------------------------------------------------
(* TempoMap *)

\* Optional fields: <<>> is None, <<v>> is the value v
None == <<>>
Some(v) == <<v>>

NoMap == [beats |-> <<>>, average_bpm |-> Zero, tempo_curve |-> None,
          tempo_confidence |-> None, downbeats |-> None,
          time_signature |-> None]

\* outcome of a call: a value, or a raised exception
Ok(v) == [ok |-> TRUE, val |-> v, exc |-> "none"]
Raise(e) == [ok |-> FALSE, val |-> NoMap, exc |-> e]

\* sorted(beats, key=lambda b: b.time): stable, so a beat goes after every
\* beat already placed whose time is not greater
RECURSIVE InsertByTime(_, _)
InsertByTime(b, s) ==
    IF s = <<>> THEN <<b>>
    ELSE IF RLt(b.time, Head(s).time) THEN <<b>> \o s
    ELSE <<Head(s)>> \o InsertByTime(b, Tail(s))

\* mutant: the list is left in the order given
SortByTimeNone(s) == s

RECURSIVE SortByTime(_)
SortByTime(s) ==
    IF s = <<>> THEN <<>>
    ELSE InsertByTime(s[Len(s)], SortByTime(SubSeq(s, 1, Len(s) - 1)))

\* mutant: the lengths are compared as soon as either sequence is given
TempoMapInitEither(beats, bpm, curve, cconf, downbeats, ts) ==
    IF beats = <<>> THEN Raise("ValueError")
    ELSE IF (curve # None \/ cconf # None)
            /\ (IF curve = None THEN 0 ELSE Len(curve[1]))
                 # (IF cconf = None THEN 0 ELSE Len(cconf[1]))
         THEN Raise("ValueError")
    ELSE Ok([beats |-> SortByTime(beats), average_bpm |-> bpm,
             tempo_curve |-> curve, tempo_confidence |-> cconf,
             downbeats |-> downbeats, time_signature |-> ts])

\* TempoMap.__post_init__
TempoMapInit(beats, bpm, curve, cconf, downbeats, ts) ==
    IF beats = <<>> THEN Raise("ValueError")
    ELSE IF curve # None /\ cconf # None /\ Len(curve[1]) # Len(cconf[1])
         THEN Raise("ValueError")
    ELSE Ok([beats |-> SortByTime(beats), average_bpm |-> bpm,
             tempo_curve |-> curve, tempo_confidence |-> cconf,
             downbeats |-> downbeats, time_signature |-> ts])

----------------------------------------------------------------------------
(* Derived sequences *)

\* [b.time for b in beats]
RECURSIVE TimesOf(_)
TimesOf(s) == IF s = <<>> THEN <<>> ELSE <<Head(s).time>> \o TimesOf(Tail(s))

\* np.diff(times)
Diff(ts) == [i \in 1..(Len(ts) - 1) |-> RSub(ts[i + 1], ts[i])]

\* float infinity, what numpy yields for 60.0 / 0.0
Inf == <<1, 0>>

RECURSIVE SumBpm(_)
SumBpm(iv) == IF iv = <<>> THEN Zero ELSE RAdd(RDiv(R(60), Head(iv)), SumBpm(Tail(iv)))

\* float(np.mean(60.0 / intervals)); the intervals of a sorted list are >= 0
MeanBpm(iv) ==
    IF \E i \in 1..Len(iv) : iv[i] = Zero THEN Inf
    ELSE RDiv(SumBpm(iv), R(Len(iv)))

\* every beat built by a transform goes through Beat.__post_init__
AllValid(s) == \A i \in 1..Len(s) : BeatValid(s[i].time, s[i].position, s[i].confidence)

----------------------------------------------------------------------------
(* TempoMap.filter_by_confidence *)

\* mutant: a beat whose confidence equals the threshold is dropped
RECURSIVE FilterBeatsAbove(_, _)
FilterBeatsAbove(s, c) ==
    IF s = <<>> THEN <<>>
    ELSE IF RLt(c, Head(s).confidence)
         THEN <<Head(s)>> \o FilterBeatsAbove(Tail(s), c)
         ELSE FilterBeatsAbove(Tail(s), c)

RECURSIVE FilterBeats(_, _)
FilterBeats(s, c) ==
    IF s = <<>> THEN <<>>
    ELSE IF ~RLt(Head(s).confidence, c)
         THEN <<Head(s)>> \o FilterBeats(Tail(s), c)
         ELSE FilterBeats(Tail(s), c)

\* mutant: when no beat meets the threshold the receiver is returned
filter_by_confidence_or_self(self, min_confidence) ==
    LET filtered_beats == FilterBeats(self.beats, min_confidence)
        filtered_bpm == IF Len(filtered_beats) > 1
                        THEN MeanBpm(Diff(TimesOf(filtered_beats)))
                        ELSE self.average_bpm
    IN  IF filtered_beats = <<>> THEN Ok(self)
        ELSE TempoMapInit(filtered_beats, filtered_bpm, self.tempo_curve,
                          self.tempo_confidence, self.downbeats,
                          self.time_signature)

filter_by_confidence(self, min_confidence) ==
    LET filtered_beats == FilterBeats(self.beats, min_confidence)
        filtered_bpm == IF Len(filtered_beats) > 1
                        THEN MeanBpm(Diff(TimesOf(filtered_beats)))
                        ELSE self.average_bpm
    IN  IF filtered_beats = <<>> THEN Raise("ValueError")
        ELSE TempoMapInit(filtered_beats, filtered_bpm, self.tempo_curve,
                          self.tempo_confidence, self.downbeats,
                          self.time_signature)

----------------------------------------------------------------------------
(* TempoMap.quantize_to_grid *)

\* Python round(x) of a float: nearest integer, ties to the even one
\* mutant: the quotient is truncated, not rounded
RoundDown(x) == x[1] \div x[2]

Round(x) ==
    LET f == x[1] \div x[2]
        r == x[1] - f * x[2]
    IN  IF 2 * r < x[2] THEN f
        ELSE IF 2 * r > x[2] THEN f + 1
        ELSE IF f % 2 = 0 THEN f ELSE f + 1

QuantizeBeat(b, grid_size) ==
    MkBeat(RMul(R(Round(RDiv(b.time, grid_size))), grid_size),
           b.position, b.confidence)

\* mutant: the result is built from the beats alone, as merge_with does
quantize_to_grid_bare(self, grid_size) ==
    LET quantized_beats == [i \in 1..Len(self.beats) |->
                               QuantizeBeat(self.beats[i], grid_size)]
    IN  IF grid_size = Zero THEN Raise("ZeroDivisionError")
        ELSE IF ~AllValid(quantized_beats) THEN Raise("ValueError")
        ELSE TempoMapInit(quantized_beats, self.average_bpm, None, None, None,
                          self.time_signature)

quantize_to_grid(self, grid_size) ==
    LET quantized_beats == [i \in 1..Len(self.beats) |->
                               QuantizeBeat(self.beats[i], grid_size)]
    IN  IF grid_size = Zero THEN Raise("ZeroDivisionError")
        ELSE IF ~AllValid(quantized_beats) THEN Raise("ValueError")
        ELSE TempoMapInit(quantized_beats, self.average_bpm, self.tempo_curve,
                          self.tempo_confidence, self.downbeats,
                          self.time_signature)

----------------------------------------------------------------------------
(* TempoMap.merge_with *)

\* distances[closest_idx] < 0.05
Window == Ms(50)

\* np.abs(other_times - beat.time)
Distances(other_beats, t) ==
    [j \in 1..Len(other_beats) |-> RAbs(RSub(other_beats[j].time, t))]

\* np.argmin: the first index holding the minimum
RECURSIVE ArgMinFrom(_, _, _)
ArgMinFrom(d, j, best) ==
    IF j > Len(d) THEN best
    ELSE ArgMinFrom(d, j + 1, IF RLt(d[j], d[best]) THEN j ELSE best)

ArgMin(d) == ArgMinFrom(d, 2, 1)

\* mutant: a beat exactly 50 ms away counts as a match
WithinInclusive(dist) == RLe(dist, Window)

Within(dist) == RLt(dist, Window)

\* mutant: a beat of self with no match keeps its full confidence
MergeOneKeepConf(b, other_beats, weight) ==
    LET distances == Distances(other_beats, b.time)
        closest_idx == ArgMin(distances)
        other_beat == other_beats[closest_idx]
    IN  IF Within(distances[closest_idx])
        THEN MkBeat(RAdd(RMul(b.time, weight),
                         RMul(other_beat.time, RSub(One, weight))),
                    b.position,
                    RAdd(RMul(b.confidence, weight),
                         RMul(other_beat.confidence, RSub(One, weight))))
        ELSE MkBeat(b.time, b.position, b.confidence)

\* mutant: a blend adds the two confidences
MergeOneSum(b, other_beats, weight) ==
    LET distances == Distances(other_beats, b.time)
        closest_idx == ArgMin(distances)
        other_beat == other_beats[closest_idx]
    IN  IF Within(distances[closest_idx])
        THEN MkBeat(RAdd(RMul(b.time, weight),
                         RMul(other_beat.time, RSub(One, weight))),
                    b.position,
                    RAdd(b.confidence, other_beat.confidence))
        ELSE MkBeat(b.time, b.position, RMul(b.confidence, weight))

\* mutant: the two weights of a blend are exchanged
MergeOneSwapped(b, other_beats, weight) ==
    LET distances == Distances(other_beats, b.time)
        closest_idx == ArgMin(distances)
        other_beat == other_beats[closest_idx]
    IN  IF Within(distances[closest_idx])
        THEN MkBeat(RAdd(RMul(b.time, RSub(One, weight)),
                         RMul(other_beat.time, weight)),
                    b.position,
                    RAdd(RMul(b.confidence, RSub(One, weight)),
                         RMul(other_beat.confidence, weight)))
        ELSE MkBeat(b.time, b.position, RMul(b.confidence, weight))

\* the Beat one iteration of the loop over self.beats appends
MergeOne(b, other_beats, weight) ==
    LET distances == Distances(other_beats, b.time)
        closest_idx == ArgMin(distances)
        other_beat == other_beats[closest_idx]
    IN  IF Within(distances[closest_idx])
        THEN MkBeat(RAdd(RMul(b.time, weight),
                         RMul(other_beat.time, RSub(One, weight))),
                    b.position,
                    RAdd(RMul(b.confidence, weight),
                         RMul(other_beat.confidence, RSub(One, weight))))
        ELSE MkBeat(b.time, b.position, RMul(b.confidence, weight))

\* the index one iteration adds to used_other, as a set
UsedOne(b, other_beats) ==
    LET distances == Distances(other_beats, b.time)
        closest_idx == ArgMin(distances)
    IN  IF Within(distances[closest_idx]) THEN {closest_idx} ELSE {}

\* the loop over self.beats: <<merged_beats, used_other>>
RECURSIVE MergeLoop(_, _, _, _, _, _)
MergeLoop(self_beats, other_beats, weight, i, merged_beats, used_other) ==
    IF i > Len(self_beats) THEN <<merged_beats, used_other>>
    ELSE MergeLoop(self_beats, other_beats, weight, i + 1,
                   Append(merged_beats, MergeOne(self_beats[i], other_beats, weight)),
                   used_other \cup UsedOne(self_beats[i], other_beats))

\* which branch each iteration of the loop over self.beats took
BlendTrace(self, oth) ==
    [i \in 1..Len(self.beats) |->
        LET u == UsedOne(self.beats[i], oth.beats)
        IN  IF u = {} THEN 0 ELSE CHOOSE j \in u : TRUE]

\* mutant: the remaining beats of other are attenuated by weight, not 1 - weight
RECURSIVE RemainingSameWeight(_, _, _, _)
RemainingSameWeight(other_beats, used_other, weight, i) ==
    IF i > Len(other_beats) THEN <<>>
    ELSE (IF i \notin used_other
          THEN <<MkBeat(other_beats[i].time, other_beats[i].position,
                        RMul(other_beats[i].confidence, weight))>>
          ELSE <<>>)
         \o RemainingSameWeight(other_beats, used_other, weight, i + 1)

\* mutant: every beat of other is appended, matched or not
RECURSIVE RemainingAll(_, _, _, _)
RemainingAll(other_beats, used_other, weight, i) ==
    IF i > Len(other_beats) THEN <<>>
    ELSE <<MkBeat(other_beats[i].time, other_beats[i].position,
                  RMul(other_beats[i].confidence, RSub(One, weight)))>>
         \o RemainingAll(other_beats, used_other, weight, i + 1)

\* the loop over enumerate(other.beats)
RECURSIVE Remaining(_, _, _, _)
Remaining(other_beats, used_other, weight, i) ==
    IF i > Len(other_beats) THEN <<>>
    ELSE (IF i \notin used_other
          THEN <<MkBeat(other_beats[i].time, other_beats[i].position,
                        RMul(other_beats[i].confidence, RSub(One, weight)))>>
          ELSE <<>>)
         \o Remaining(other_beats, used_other, weight, i + 1)

\* merged_beats before the final sort
MergedUnsorted(self, oth, weight) ==
    LET loop == MergeLoop(self.beats, oth.beats, weight, 1, <<>>, {})
    IN  loop[1] \o Remaining(oth.beats, loop[2], weight, 1)

\* mutant: the bounds 0 and 1 are rejected too
WeightOkStrict(weight) == RLt(Zero, weight) /\ RLt(weight, One)

WeightOk(weight) == RLe(Zero, weight) /\ RLe(weight, One)

\* mutant: the two weights of the tempo are exchanged
MergedBpmSwapped(self, oth, weight) ==
    RAdd(RMul(self.average_bpm, RSub(One, weight)),
         RMul(oth.average_bpm, weight))

MergedBpm(self, oth, weight) ==
    RAdd(RMul(self.average_bpm, weight),
         RMul(oth.average_bpm, RSub(One, weight)))

\* mutant: the time signature is taken from other
MergedFieldsFromOther(self, oth) ==
    [tempo_curve |-> None, tempo_confidence |-> None, downbeats |-> None,
     time_signature |-> oth.time_signature]

MergedFields(self, oth) ==
    [tempo_curve |-> None, tempo_confidence |-> None, downbeats |-> None,
     time_signature |-> self.time_signature]

merge_with(self, oth, weight) ==
    IF ~WeightOk(weight) THEN Raise("ValueError")
    ELSE LET merged_beats == MergedUnsorted(self, oth, weight)
             f == MergedFields(self, oth)
         IN  IF ~AllValid(merged_beats) THEN Raise("ValueError")
             ELSE TempoMapInit(SortByTime(merged_beats),
                               MergedBpm(self, oth, weight),
                               f.tempo_curve, f.tempo_confidence,
                               f.downbeats, f.time_signature)

----------------------------------------------------------------------------
(* Inputs *)

\* all sequences over S of length 1..n
RECURSIVE SeqsUpTo(_, _)
SeqsUpTo(S, n) ==
    IF n = 0 THEN {}
    ELSE LET shorter == SeqsUpTo(S, n - 1)
         IN  {<<x>> : x \in S} \cup shorter
               \cup {Append(s, x) : s \in shorter, x \in S}

\* (position, confidence) of the beats handed in
Kinds == {<<1, One>>, <<2, Norm(1, 2)>>}

BeatsAt(msSet) == {MkBeat(Ms(t), k[1], k[2]) : t \in msSet, k \in Kinds}

\* beat times (ms) of the merge inputs: 40, 50 and 60 ms apart occur
\* distances 0, 10, 20, 40, 50, 60 ms occur, and 20 is as far from 0 as from 40
SelfLists == SeqsUpTo(BeatsAt({20, 40, 100}), MaxBeats)
ArgLists == SeqsUpTo(BeatsAt({0, 40, 90}), MaxBeats)

\* the beat lists a receiver is constructed from, the empty one included
PoolBeats == {MkBeat(Zero, 1, One), MkBeat(Ms(40), 2, Norm(1, 2)),
              MkBeat(Ms(90), 1, Norm(1, 2))}
PoolLists == SeqsUpTo(PoolBeats, MaxBeats) \cup {<<>>}
\* the beat lists of the maps handed to merge_with in a chain of transforms
OtherLists == {<<MkBeat(Ms(20), 3, Norm(1, 2))>>,
               <<MkBeat(Ms(50), 2, One)>>,
               <<MkBeat(Ms(100), 1, One), MkBeat(Ms(20), 3, Norm(1, 2))>>}

\* the fields of a TempoMap besides its beats
Header(bpm, curve, cconf, downbeats, ts) ==
    [average_bpm |-> bpm, tempo_curve |-> curve, tempo_confidence |-> cconf,
     downbeats |-> downbeats, time_signature |-> ts]

HBare(bpm) == Header(R(bpm), None, None, None, None)
HFull(bpm, n) ==
    Header(R(bpm), Some(<<R(bpm), R(bpm + 1)>>), Some(<<One, Norm(1, 2)>>),
           Some(<<Zero>>), Some(<<n, 4>>))
\* tempo_curve and tempo_confidence of different lengths
HMismatch == Header(R(120), Some(<<R(120), R(121)>>), Some(<<One>>), None, None)

Construct(beats, h) ==
    TempoMapInit(beats, h.average_bpm, h.tempo_curve, h.tempo_confidence,
                 h.downbeats, h.time_signature)

\* merge weights: 0, 1/2, 1 and the rejected -1/10 and 3/2
Weights == {Zero, Norm(1, 2), One, Norm(-1, 10), Norm(3, 2)}
ChainWeights == {Zero, Norm(1, 2), One, Norm(3, 2)}
Thresholds == {Norm(1, 2), Norm(7, 10), Norm(17, 20), One}
Grids == {Zero, Norm(1, 20), Norm(1, 10), Norm(1, 4)}

\* no fields handed in: the call was not the TempoMap constructor
NoFields == Header(Zero, None, None, None, None)

\* no EnsembleDetector constructed yet
NoEns == [built |-> FALSE, algorithms |-> <<>>, detectors |-> <<>>,
          audio |-> "none", outcomes |-> <<>>, invoked |-> <<>>,
          results |-> <<>>, warnings |-> <<>>, reasons |-> {},
          sorted |-> <<>>, folds |-> <<>>]

\* no derived property read yet
NoDerived == [read |-> FALSE, dur |-> Zero, times |-> <<>>,
              intervals |-> <<>>, bpms |-> <<>>]

\* AudioAnalyzer.analyze not called yet
NoAnalysis == [called |-> FALSE, algorithm |-> "none",
               confidence_threshold |-> Zero, audio |-> "none",
               detected |-> NoMap, returned |-> FALSE, exc |-> "none",
               beats |-> <<>>, average_bpm |-> Zero]

\* no BatchProcessor constructed yet
NoBatch == [built |-> FALSE, parallel |-> FALSE, skip_existing |-> FALSE,
            mode |-> "none", files |-> <<>>, fails |-> {}, existed |-> {},
            outputs |-> {}, pending |-> {}, completed |-> {},
            worker_skipped |-> {}, skipped_count |-> 0, analyzed |-> {},
            results |-> <<>>, returned |-> FALSE]

NoOp == [name |-> "none", arg |-> Zero, input |-> <<>>, fields |-> NoFields]

----------------------------------------------------------------------------
(* Operations *)

\* mutant: the transform stores the beats it computed in its receiver
SelfAfterInPlace(self, r) ==
    IF r.ok THEN [self EXCEPT !.beats = r.val.beats] ELSE self

\* the receiver after a transform whose outcome is r: no transform assigns a
\* field of self or changes one of its beats
SelfAfter(self, r) == self

\* the argument of merge_with after the call: it is only read
ArgAfter(oth) == oth

\* the caller keeps what a call returned, or the exception it raised
Returned(r) ==
    /\ result' = (IF r.ok THEN r.val ELSE NoMap)
    /\ err' = r.exc

Merge(oth, weight) ==
    /\ tm # NoMap
    /\ oth # NoMap
    /\ other' = ArgAfter(oth)
    /\ op' = [name |-> "merge_with", arg |-> weight, input |-> <<>>,
                  fields |-> NoFields]
    /\ Returned(merge_with(tm, oth, weight))
    /\ blended' = (IF WeightOk(weight) THEN BlendTrace(tm, oth) ELSE <<>>)
    /\ tm' = SelfAfter(tm, merge_with(tm, oth, weight))
    /\ UNCHANGED <<beat, depth, ens, derived, analysis, batch>>

\* merge_with over the two maps the behaviour started with
MergeGiven ==
    /\ op = NoOp
    /\ \E w \in Weights : Merge(other, w)

MapsOf(lists, hs) == {Construct(l, h).val : l \in lists, h \in hs}

InitMerge ==
    /\ tm \in MapsOf(SelfLists, {HBare(120), HFull(120, 4)})
    /\ other \in MapsOf(ArgLists, {HFull(130, 3)})
    /\ blended = <<>>
    /\ result = NoMap
    /\ err = "none"
    /\ op = NoOp
    /\ beat = NoBeat
    /\ depth = 0
    /\ ens = NoEns
    /\ derived = NoDerived
    /\ analysis = NoAnalysis
    /\ batch = NoBatch

NextMerge == MergeGiven

SpecMerge == InitMerge /\ [][NextMerge]_vars

----------------------------------------------------------------------------
(* Beat construction on its own *)

RawTimes == {R(-1), Norm(-1, 1000), Zero, Ms(40), R(1000)}
RawPositions == {-1, 0, 1, 2, 100}
RawConfidences == {Norm(-1, 10), Zero, Norm(1, 2), One, Norm(3, 2)}

\* Beat(time, position, confidence)
NewBeat(t, p, c) ==
    /\ op' = [name |-> "Beat", arg |-> Zero, input |-> <<MkBeat(t, p, c)>>,
              fields |-> NoFields]
    /\ IF BeatValid(t, p, c)
       THEN beat' = MkBeat(t, p, c) /\ err' = "none"
       ELSE beat' = NoBeat /\ err' = "ValueError"
    /\ UNCHANGED <<tm, other, result, blended, depth, ens, derived, analysis, batch>>

InitNone ==
    /\ tm = NoMap
    /\ other = NoMap
    /\ result = NoMap
    /\ err = "none"
    /\ op = NoOp
    /\ beat = NoBeat
    /\ blended = <<>>
    /\ depth = 0
    /\ ens = NoEns
    /\ derived = NoDerived
    /\ analysis = NoAnalysis
    /\ batch = NoBatch

NextBeat ==
    \E t \in RawTimes, p \in RawPositions, c \in RawConfidences : NewBeat(t, p, c)

SpecBeat == InitNone /\ [][NextBeat]_vars

----------------------------------------------------------------------------
(* The life of a TempoMap: constructed, then transformed, each result      *)
(* possibly becoming the receiver of the next transforms                   *)

\* TempoMap(beats=l, average_bpm=..., ...)
NewMapOf(l, h) ==
    /\ op' = [name |-> "TempoMap", arg |-> Zero, input |-> l, fields |-> h]
    /\ Returned(Construct(l, h))
    /\ blended' = <<>>
    /\ UNCHANGED <<tm, other, beat, depth, ens, derived, analysis, batch>>

\* TempoMap(beats=..., average_bpm=..., ...) for the receiver to be
NewMap ==
    /\ tm = NoMap
    /\ \E l \in PoolLists, h \in {HBare(120), HFull(90, 3), HMismatch} :
          NewMapOf(l, h)

\* the caller goes on with the map the last call returned, and makes one
\* call on it
Adopt ==
    /\ result # NoMap
    /\ depth < MaxDepth
    /\ tm' = result
    /\ depth' = depth + 1
    /\ result' = NoMap
    /\ other' = NoMap
    /\ op' = NoOp
    /\ err' = "none"
    /\ blended' = <<>>
    /\ UNCHANGED <<beat, ens, derived, analysis, batch>>

Filter ==
    /\ tm # NoMap /\ op = NoOp
    /\ \E c \in Thresholds :
          /\ op' = [name |-> "filter_by_confidence", arg |-> c, input |-> <<>>,
                  fields |-> NoFields]
          /\ Returned(filter_by_confidence(tm, c))
          /\ tm' = SelfAfter(tm, filter_by_confidence(tm, c))
    /\ blended' = <<>>
    /\ UNCHANGED <<other, beat, depth, ens, derived, analysis, batch>>

Quantize ==
    /\ tm # NoMap /\ op = NoOp
    /\ \E g \in Grids :
          /\ op' = [name |-> "quantize_to_grid", arg |-> g, input |-> <<>>,
                  fields |-> NoFields]
          /\ Returned(quantize_to_grid(tm, g))
          /\ tm' = SelfAfter(tm, quantize_to_grid(tm, g))
    /\ blended' = <<>>
    /\ UNCHANGED <<other, beat, depth, ens, derived, analysis, batch>>

\* merge_with a map handed in
MergeArg ==
    /\ op = NoOp
    /\ \E o \in MapsOf(OtherLists, {HFull(130, 4)}), w \in ChainWeights :
          Merge(o, w)

Next == NewMap \/ Adopt \/ Filter \/ Quantize \/ MergeArg

Spec == InitNone /\ [][Next]_vars

----------------------------------------------------------------------------
(* TempoMap construction on its own *)

\* only one of tempo_curve and tempo_confidence given
HCurveOnly == Header(R(100), Some(<<R(100), R(101)>>), None, Some(<<Zero>>), None)
HConfOnly == Header(R(100), None, Some(<<One>>), None, Some(<<4, 4>>))
\* both given and empty
HEmptyCurves == Header(R(100), Some(<<>>), Some(<<>>), None, None)
\* tempo_confidence longer than tempo_curve
HMismatchLong == Header(R(100), Some(<<R(100)>>), Some(<<One, One>>), None, None)

NewHeaders == {HBare(120), HFull(90, 3), HMismatch, HMismatchLong,
               HCurveOnly, HConfOnly, HEmptyCurves}

NewMapAny ==
    \E l \in SeqsUpTo(BeatsAt({0, 40}), MaxBeats) \cup {<<>>}, h \in NewHeaders :
        NewMapOf(l, h)

NextNew == NewMapAny

SpecNew == InitNone /\ [][NextNew]_vars

----------------------------------------------------------------------------
(* One transform of a constructed TempoMap *)

\* beats of three confidences, two of them at the same time, and times that
\* fall between the points of the grids
TransformBeats ==
    {MkBeat(Zero, 1, Norm(9, 10)), MkBeat(Ms(375), 1, One),
     MkBeat(Ms(530), 2, Norm(7, 10)), MkBeat(Ms(1000), 3, Norm(9, 10)),
     MkBeat(Ms(1000), 2, Norm(7, 10)), MkBeat(Ms(1270), 1, Norm(1, 2))}
TransformLists == SeqsUpTo(TransformBeats, MaxBeats + 1)

InitTransform ==
    /\ tm \in MapsOf(TransformLists, {HBare(120), HFull(90, 3)})
    /\ other \in MapsOf(OtherLists, {HFull(130, 4)})
    /\ blended = <<>>
    /\ result = NoMap
    /\ err = "none"
    /\ op = NoOp
    /\ beat = NoBeat
    /\ depth = 0
    /\ ens = NoEns
    /\ derived = NoDerived
    /\ analysis = NoAnalysis
    /\ batch = NoBatch

NextTransform == Filter \/ Quantize \/ MergeGiven

SpecTransform == InitTransform /\ [][NextTransform]_vars

----------------------------------------------------------------------------
(* The component detectors *)

\* the names a configuration may list; only the first three have a class in
\* detector_classes
AlgoNames == {"madmom", "essentia", "librosa", "aubio"}
DetectorNames == {"madmom", "essentia", "librosa"}

\* two pieces of audio
Audios == {"a1", "a2"}

\* what a beat tracker finds in a piece of audio (the trackers are libraries
\* outside the repository): times in seconds
BeatTimesOf(name, audio) ==
    IF name = "madmom"
    THEN (IF audio = "a1" THEN <<Zero, Ms(500), Ms(1000)>> ELSE <<Ms(250)>>)
    ELSE (IF audio = "a1" THEN <<Ms(20), Ms(510)>>
          ELSE <<Zero, Ms(480), Ms(1000)>>)

\* the tempo librosa.beat.beat_track reports for a piece of audio
TempoOf(audio) == IF audio = "a1" THEN R(123) ELSE R(118)

\* Beat(time, position=(i % 4) + 1, confidence) for the i-th time, i from 0
BeatsOfTimes(times, c) ==
    [k \in 1..Len(times) |-> MkBeat(times[k], ((k - 1) % 4) + 1, c)]

\* MadmomDetector._create_tempo_map
MadmomMap(beat_times) ==
    LET avg_bpm == IF Len(beat_times) > 1
                   THEN RDiv(R(60 * (Len(beat_times) - 1)),
                             RSub(beat_times[Len(beat_times)], beat_times[1]))
                   ELSE R(120)
    IN  TempoMapInit(BeatsOfTimes(beat_times, Norm(9, 10)), avg_bpm,
                     None, None, None, None)

\* LibrosaDetector.detect, after beat_track
LibrosaMap(beat_times, tempo) ==
    TempoMapInit(BeatsOfTimes(beat_times, Norm(8, 10)), tempo,
                 None, None, None, None)

\* the outcomes of detector.detect(audio): the library is missing, it finds
\* no beat (the TempoMap constructor refuses the empty list), or it finds the
\* beats of the audio; essentia's detect is not implemented
DetectOutcomes(name, audio) ==
    IF name = "madmom"
    THEN {Raise("ImportError"), MadmomMap(<<>>),
          MadmomMap(BeatTimesOf(name, audio))}
    ELSE IF name = "librosa"
    THEN {Raise("ImportError"), LibrosaMap(<<>>, TempoOf(audio)),
          LibrosaMap(BeatTimesOf(name, audio), TempoOf(audio))}
    ELSE {Raise("ImportError"), Raise("NotImplementedError")}

\* the outcomes of the detectors dets, one each
RECURSIVE OutcomesOf(_, _)
OutcomesOf(dets, audio) ==
    IF dets = <<>> THEN {<<>>}
    ELSE {<<o>> \o rest : o \in DetectOutcomes(Head(dets), audio),
                          rest \in OutcomesOf(Tail(dets), audio)}

----------------------------------------------------------------------------
(* EnsembleDetector *)

\* _init_detectors: one detector per configured name that has a class
RECURSIVE init_detectors(_)
init_detectors(algos) ==
    IF algos = <<>> THEN <<>>
    ELSE IF Head(algos) \in DetectorNames
         THEN <<Head(algos)>> \o init_detectors(Tail(algos))
         ELSE init_detectors(Tail(algos))

\* _get_detector_weight
get_detector_weight(name) ==
    IF name = "madmom" THEN One
    ELSE IF name = "essentia" THEN Norm(8, 10)
    ELSE IF name = "librosa" THEN Norm(6, 10)
    ELSE Norm(5, 10)

NoRun == [invoked |-> <<>>, results |-> <<>>, warnings |-> <<>>]

\* mutant: the first failure ends the loop
RECURSIVE DetectLoopAbort(_, _, _)
DetectLoopAbort(dets, outs, audio) ==
    IF dets = <<>> THEN NoRun
    ELSE LET call == [name |-> Head(dets), audio |-> audio]
             o == Head(outs)
             rest == DetectLoopAbort(Tail(dets), Tail(outs), audio)
         IN  IF o.ok
             THEN [invoked |-> <<call>> \o rest.invoked,
                   results |-> <<<<o.val, get_detector_weight(Head(dets))>>>>
                                 \o rest.results,
                   warnings |-> rest.warnings]
             ELSE [invoked |-> <<call>>, results |-> <<>>,
                   warnings |-> <<[name |-> Head(dets), reason |-> o.exc]>>]

\* the loop of detect over self.detectors, outs[i] being the outcome of the
\* i-th detector: the calls made, the (tempo_map, weight) pairs collected
\* and the warnings logged
RECURSIVE DetectLoop(_, _, _)
DetectLoop(dets, outs, audio) ==
    IF dets = <<>> THEN NoRun
    ELSE LET call == [name |-> Head(dets), audio |-> audio]
             o == Head(outs)
             rest == DetectLoop(Tail(dets), Tail(outs), audio)
         IN  IF o.ok
             THEN [invoked |-> <<call>> \o rest.invoked,
                   results |-> <<<<o.val, get_detector_weight(Head(dets))>>>>
                                 \o rest.results,
                   warnings |-> rest.warnings]
             ELSE [invoked |-> <<call>> \o rest.invoked,
                   results |-> rest.results,
                   warnings |-> <<[name |-> Head(dets), reason |-> o.exc]>>
                                  \o rest.warnings]

\* results.sort(key=lambda x: x[1], reverse=True): stable, so a pair goes
\* after every pair already placed whose weight is not smaller
RECURSIVE InsertByWeight(_, _)
InsertByWeight(x, s) ==
    IF s = <<>> THEN <<x>>
    ELSE IF RLt(Head(s)[2], x[2]) THEN <<x>> \o s
    ELSE <<Head(s)>> \o InsertByWeight(x, Tail(s))

\* mutant: the results are folded in the order they were collected
SortByWeightNone(s) == s

RECURSIVE SortByWeight(_)
SortByWeight(s) ==
    IF s = <<>> THEN <<>>
    ELSE InsertByWeight(s[Len(s)], SortByWeight(SubSeq(s, 1, Len(s) - 1)))

\* mutant: the running total stays at the weight of the first map
RECURSIVE FoldResultsFixedTotal(_, _, _)
FoldResultsFixedTotal(combined, total_weight, rest) ==
    IF rest = <<>> THEN Ok(combined)
    ELSE LET tempo_map == Head(rest)[1]
             weight == Head(rest)[2]
             rel_weight == RDiv(weight, RAdd(total_weight, weight))
             merged == merge_with(combined, tempo_map, RSub(One, rel_weight))
         IN  IF merged.ok
             THEN FoldResultsFixedTotal(merged.val, total_weight, Tail(rest))
             ELSE merged

\* mutant: the relative weight of the new map is passed as the weight of
\* the accumulator
RECURSIVE FoldResultsRelWeight(_, _, _)
FoldResultsRelWeight(combined, total_weight, rest) ==
    IF rest = <<>> THEN Ok(combined)
    ELSE LET tempo_map == Head(rest)[1]
             weight == Head(rest)[2]
             rel_weight == RDiv(weight, RAdd(total_weight, weight))
             merged == merge_with(combined, tempo_map, rel_weight)
         IN  IF merged.ok
             THEN FoldResultsRelWeight(merged.val, RAdd(total_weight, weight),
                                       Tail(rest))
             ELSE merged

\* the loop of _combine_results over results[1:]
RECURSIVE FoldResults(_, _, _)
FoldResults(combined, total_weight, rest) ==
    IF rest = <<>> THEN Ok(combined)
    ELSE LET tempo_map == Head(rest)[1]
             weight == Head(rest)[2]
             rel_weight == RDiv(weight, RAdd(total_weight, weight))
             merged == merge_with(combined, tempo_map, RSub(One, rel_weight))
         IN  IF merged.ok
             THEN FoldResults(merged.val, RAdd(total_weight, weight), Tail(rest))
             ELSE merged

\* mutant: the confidences of a single result are scaled by the weight of
\* its detector
combine_results_scaled(results) ==
    IF Len(results) = 1
    THEN Ok([results[1][1] EXCEPT !.beats =
                [i \in 1..Len(results[1][1].beats) |->
                    [results[1][1].beats[i] EXCEPT !.confidence =
                        RMul(results[1][1].beats[i].confidence, results[1][2])]]])
    ELSE LET sorted == SortByWeight(results)
         IN  FoldResults(sorted[1][1], sorted[1][2], Tail(sorted))

\* _combine_results
combine_results(results) ==
    IF Len(results) = 1 THEN Ok(results[1][1])
    ELSE LET sorted == SortByWeight(results)
         IN  FoldResults(sorted[1][1], sorted[1][2], Tail(sorted))

\* the results list as _combine_results leaves it: sorted in place unless it
\* holds a single pair
SortedInPlace(results) ==
    IF Len(results) = 1 THEN results ELSE SortByWeight(results)

\* the iterations of the loop of _combine_results: the accumulator and the
\* running total it started with, the pair it took, the weight it passed to
\* merge_with and what merge_with gave
RECURSIVE FoldSteps(_, _, _)
FoldSteps(combined, total_weight, rest) ==
    IF rest = <<>> THEN <<>>
    ELSE LET tempo_map == Head(rest)[1]
             weight == Head(rest)[2]
             rel_weight == RDiv(weight, RAdd(total_weight, weight))
             merged == merge_with(combined, tempo_map, RSub(One, rel_weight))
             step == [accumulator |-> combined, total_weight |-> total_weight,
                      tempo_map |-> tempo_map, map_weight |-> weight,
                      weight |-> RSub(One, rel_weight), merged |-> merged]
         IN  IF merged.ok
             THEN <<step>> \o FoldSteps(merged.val, RAdd(total_weight, weight),
                                        Tail(rest))
             ELSE <<step>>

\* the iterations _combine_results makes for a list of results
FoldsOf(results) ==
    IF Len(results) <= 1 THEN <<>>
    ELSE LET sorted == SortByWeight(results)
         IN  FoldSteps(sorted[1][1], sorted[1][2], Tail(sorted))

\* what the exception raised when no detector succeeded carries of the
\* failures: it is built from the literal "All detectors failed" alone
AllFailedReasons(warnings) == {}

\* mutant: an empty detector list is not told from detectors that all failed
detect_unchecked(detectors, run) ==
    IF run.results = <<>> THEN Raise("RuntimeError")
    ELSE combine_results(run.results)

\* EnsembleDetector.detect, given the loop's run
detect(detectors, run) ==
    IF detectors = <<>> THEN Raise("ValueError")
    ELSE IF run.results = <<>> THEN Raise("RuntimeError")
    ELSE combine_results(run.results)

\* EnsembleDetector(config)
NewEnsemble ==
    /\ ~ens.built
    /\ \E algos \in SeqsUpTo(AlgoNames, MaxAlgos) \cup {<<>>} :
          ens' = [NoEns EXCEPT !.built = TRUE, !.algorithms = algos,
                               !.detectors = init_detectors(algos)]
    /\ UNCHANGED <<tm, other, result, err, op, beat, blended, depth,
                 derived, analysis, batch>>

\* one call of detect(audio_data)
Detect ==
    /\ ens.built
    /\ op = NoOp
    /\ \E audio \in Audios :
       \E outs \in OutcomesOf(ens.detectors, audio) :
          /\ LET run == DetectLoop(ens.detectors, outs, audio)
                 r == detect(ens.detectors, run)
             IN  /\ ens' = [ens EXCEPT
                              !.audio = audio, !.outcomes = outs,
                              !.invoked = run.invoked,
                              !.results = run.results,
                              !.warnings = run.warnings,
                              !.sorted = SortedInPlace(run.results),
                              !.folds = FoldsOf(run.results),
                              !.reasons = IF r.exc = "RuntimeError"
                                          THEN AllFailedReasons(run.warnings)
                                          ELSE {}]
                 /\ Returned(r)
    /\ op' = [name |-> "detect", arg |-> Zero, input |-> <<>>,
              fields |-> NoFields]
    /\ UNCHANGED <<tm, other, beat, blended, depth, derived, analysis, batch>>

NextEnsemble == NewEnsemble \/ Detect

SpecEnsemble == InitNone /\ [][NextEnsemble]_vars

----------------------------------------------------------------------------
(* _combine_results on its own *)

\* maps of detectors: madmom's and librosa's of the audio "a1", and one whose
\* beats fall near madmom's second and third beat with other positions
CombineMaps ==
    {MadmomMap(BeatTimesOf("madmom", "a1")).val,
     LibrosaMap(BeatTimesOf("librosa", "a1"), TempoOf("a1")).val,
     LibrosaMap(<<Ms(480), Ms(1000)>>, TempoOf("a2")).val}

\* the weights _get_detector_weight gives
CombineWeights == {get_detector_weight(n) : n \in {"madmom", "librosa", "aubio"}}

\* the lists of (tempo_map, weight) pairs handed to _combine_results
\* the pairs collected: madmom's map has madmom's weight
CombinePairs ==
    {p \in CombineMaps \X CombineWeights :
        p[1].beats[1].confidence = Norm(9, 10) => p[2] = One}

CombineLists == SeqsUpTo(CombinePairs, MaxAlgos)

InitCombine ==
    /\ tm = NoMap
    /\ other = NoMap
    /\ blended = <<>>
    /\ result = NoMap
    /\ err = "none"
    /\ op = NoOp
    /\ beat = NoBeat
    /\ depth = 0
    /\ ens \in {[NoEns EXCEPT !.built = TRUE, !.results = l] : l \in CombineLists}
    /\ derived = NoDerived
    /\ analysis = NoAnalysis
    /\ batch = NoBatch

\* one call of _combine_results(results)
Combine ==
    /\ op = NoOp
    /\ ens.results # <<>>
    /\ ens' = [ens EXCEPT !.sorted = SortedInPlace(ens.results),
                          !.folds = FoldsOf(ens.results)]
    /\ Returned(combine_results(ens.results))
    /\ op' = [name |-> "_combine_results", arg |-> Zero, input |-> <<>>,
              fields |-> NoFields]
    /\ UNCHANGED <<tm, other, beat, blended, depth, derived, analysis, batch>>

NextCombine == Combine

SpecCombine == InitCombine /\ [][NextCombine]_vars

----------------------------------------------------------------------------
(* The derived properties of a TempoMap *)

duration(self) ==
    IF self.beats # <<>> THEN self.beats[Len(self.beats)].time ELSE Zero

beat_times(self) == TimesOf(self.beats)

beat_intervals(self) ==
    IF Len(beat_times(self)) > 1 THEN Diff(beat_times(self)) ELSE <<>>

\* 60.0 / intervals on a numpy array: an interval of zero gives inf
instantaneous_bpm(self) ==
    LET intervals == beat_intervals(self)
    IN  [i \in 1..Len(intervals) |-> RDiv(R(60), intervals[i])]

\* the properties of tm are read
ReadDerived ==
    /\ tm # NoMap
    /\ ~derived.read
    /\ derived' = [read |-> TRUE, dur |-> duration(tm),
                   times |-> beat_times(tm),
                   intervals |-> beat_intervals(tm),
                   bpms |-> instantaneous_bpm(tm)]
    /\ UNCHANGED <<tm, other, result, err, op, beat, blended, depth, ens,
                   analysis, batch>>

InitDerived ==
    /\ tm \in MapsOf(TransformLists, {HBare(120)})
    /\ other = NoMap
    /\ blended = <<>>
    /\ result = NoMap
    /\ err = "none"
    /\ op = NoOp
    /\ beat = NoBeat
    /\ depth = 0
    /\ ens = NoEns
    /\ derived = NoDerived
    /\ analysis = NoAnalysis
    /\ batch = NoBatch

NextDerived == ReadDerived

SpecDerived == InitDerived /\ [][NextDerived]_vars

----------------------------------------------------------------------------
(* AudioAnalyzer.analyze *)

\* config.algorithm: the detectors of one library
AnalyzeAlgorithms == {"madmom", "librosa", "essentia", "aubio"}

\* config.confidence_threshold, which AnalysisConfig keeps within [0, 1]
AnalyzeThresholds == {Zero, Norm(1, 2), Norm(8, 10), Norm(17, 20), One}

\* analyze, given whether load_audio returned and what detector.detect did:
\* what the call raised, or the beats and average_bpm of its AnalysisResult
analyze(confidence_threshold, loaded, outcome) ==
    IF ~loaded THEN [returned |-> FALSE, exc |-> "AudioLoadError",
                     detected |-> NoMap, tempo_map |-> NoMap]
    ELSE IF ~outcome.ok
    THEN [returned |-> FALSE, exc |-> outcome.exc,
          detected |-> NoMap, tempo_map |-> NoMap]
    ELSE LET filtered ==
                 IF RLt(Zero, confidence_threshold)
                 THEN filter_by_confidence(outcome.val, confidence_threshold)
                 ELSE outcome
         IN  [returned |-> filtered.ok, exc |-> filtered.exc,
              detected |-> outcome.val, tempo_map |-> filtered.val]

\* one call of AudioAnalyzer(config).analyze(audio_path)
Analyze ==
    /\ ~analysis.called
    /\ \E algorithm \in AnalyzeAlgorithms, c \in AnalyzeThresholds,
          audio \in Audios, loaded \in BOOLEAN :
       \E outcome \in DetectOutcomes(algorithm, audio) :
          LET r == analyze(c, loaded, outcome)
          IN  analysis' = [called |-> TRUE, algorithm |-> algorithm,
                           confidence_threshold |-> c, audio |-> audio,
                           detected |-> r.detected, returned |-> r.returned,
                           exc |-> r.exc, beats |-> r.tempo_map.beats,
                           average_bpm |-> r.tempo_map.average_bpm]
    /\ UNCHANGED <<tm, other, result, err, op, beat, blended, depth, ens,
                   derived, batch>>

NextAnalyze == Analyze

SpecAnalyze == InitNone /\ [][NextAnalyze]_vars

----------------------------------------------------------------------------
(* BatchProcessor *)

\* most files handed to process_files
MaxFiles == 2

\* the input files, of different names
FileNames == {"song1", "song2", "song3"}

\* the lists of up to MaxFiles different files, the empty list included
FileLists ==
    {l \in SeqsUpTo(FileNames, MaxFiles) :
        \A i, j \in 1..Len(l) : l[i] = l[j] => i = j} \cup {<<>>}

FilesOf(l) == {l[i] : i \in 1..Len(l)}

\* _process_single_file for the file f, given the outputs that exist and the
\* files analyze_file fails on: the BatchResult, whether the skip was
\* counted, whether analyze_file was called and whether an output was saved
process_single_file(f, skip_existing, outputs, fails) ==
    IF skip_existing /\ f \in outputs
    THEN [result |-> [file_path |-> f, success |-> TRUE,
                      error |-> "Skipped (output exists)"],
          skipped |-> TRUE, analyzed |-> FALSE, saved |-> FALSE]
    ELSE IF f \in fails
    THEN [result |-> [file_path |-> f, success |-> FALSE, error |-> "error"],
          skipped |-> FALSE, analyzed |-> TRUE, saved |-> FALSE]
    ELSE [result |-> [file_path |-> f, success |-> TRUE, error |-> "none"],
          skipped |-> FALSE, analyzed |-> TRUE, saved |-> TRUE]

\* the loop of _process_sequential from file i on, b being the processor and
\* the output directory so far
RECURSIVE SequentialLoop(_, _)
SequentialLoop(b, i) ==
    IF i > Len(b.files) THEN b
    ELSE LET r == process_single_file(b.files[i], b.skip_existing,
                                      b.outputs, b.fails)
         IN  SequentialLoop(
                 [b EXCEPT
                    !.results = Append(b.results, r.result),
                    !.skipped_count = IF r.skipped THEN @ + 1 ELSE @,
                    !.analyzed = IF r.analyzed THEN @ \cup {b.files[i]} ELSE @,
                    !.outputs = IF r.saved THEN @ \cup {b.files[i]} ELSE @],
                 i + 1)

\* BatchProcessor(parallel=..., skip_existing=...)
NewBatch ==
    /\ ~batch.built
    /\ \E parallel \in BOOLEAN, skip_existing \in BOOLEAN :
          batch' = [NoBatch EXCEPT !.built = TRUE, !.parallel = parallel,
                                  !.skip_existing = skip_existing]
    /\ UNCHANGED <<tm, other, result, err, op, beat, blended, depth, ens,
                   derived, analysis>>

\* process_files(files, output_dir) taking _process_sequential, to its return
ProcessSequential ==
    /\ batch.built /\ batch.mode = "none"
    /\ \E files \in FileLists :
       \E existed \in SUBSET FilesOf(files), fails \in SUBSET FilesOf(files) :
          /\ ~(batch.parallel /\ Len(files) > 1)
          /\ batch' = [SequentialLoop(
                          [batch EXCEPT !.mode = "sequential", !.files = files,
                                        !.fails = fails, !.existed = existed,
                                        !.outputs = existed], 1)
                       EXCEPT !.returned = TRUE]
    /\ UNCHANGED <<tm, other, result, err, op, beat, blended, depth, ens,
                   derived, analysis>>

\* process_files(files, output_dir) taking _process_parallel: every file is
\* submitted to the process pool
SubmitParallel ==
    /\ batch.built /\ batch.mode = "none"
    /\ \E files \in FileLists :
       \E existed \in SUBSET FilesOf(files), fails \in SUBSET FilesOf(files) :
          /\ batch.parallel /\ Len(files) > 1
          /\ batch' = [batch EXCEPT !.mode = "parallel", !.files = files,
                                    !.fails = fails, !.existed = existed,
                                    !.outputs = existed,
                                    !.pending = FilesOf(files)]
    /\ UNCHANGED <<tm, other, result, err, op, beat, blended, depth, ens,
                   derived, analysis>>

\* a worker process runs _process_single_file on its copy of the processor:
\* the skip it counts is counted in the copy
WorkerRun ==
    /\ batch.mode = "parallel"
    /\ \E f \in batch.pending :
          LET r == process_single_file(f, batch.skip_existing, batch.outputs,
                                       batch.fails)
          IN  batch' = [batch EXCEPT
                          !.pending = @ \ {f},
                          !.completed = @ \cup {r.result},
                          !.worker_skipped = IF r.skipped THEN @ \cup {f} ELSE @,
                          !.analyzed = IF r.analyzed THEN @ \cup {f} ELSE @,
                          !.outputs = IF r.saved THEN @ \cup {f} ELSE @]
    /\ UNCHANGED <<tm, other, result, err, op, beat, blended, depth, ens,
                   derived, analysis>>

\* as_completed hands over a finished future and its result is appended;
\* _process_parallel returns after the last one
Collect ==
    /\ batch.mode = "parallel" /\ ~batch.returned
    /\ \E r \in batch.completed :
          batch' = [batch EXCEPT
                      !.completed = @ \ {r},
                      !.results = Append(@, r),
                      !.returned = (Len(batch.results) + 1 = Len(batch.files))]
    /\ UNCHANGED <<tm, other, result, err, op, beat, blended, depth, ens,
                   derived, analysis>>

NextBatch ==
    NewBatch \/ ProcessSequential \/ SubmitParallel \/ WorkerRun \/ Collect

SpecBatch == InitNone /\ [][NextBatch]_vars

----------------------------------------------------------------------------
(* Vocabulary of the properties of merge_with *)

MergeCalled == op.name = "merge_with"
MergeOk == MergeCalled /\ err = "none"

Has(s, x) == \E i \in 1..Len(s) : s[i] = x

\* |other.beats[j].time - tm.beats[i].time|
Dist(i, j) == RAbs(RSub(other.beats[j].time, tm.beats[i].time))

\* the beat of other closest in time to beat i of tm, the earliest on ties
Nearest(i) ==
    CHOOSE j \in 1..Len(other.beats) :
        /\ \A k \in 1..Len(other.beats) : RLe(Dist(i, j), Dist(i, k))
        /\ \A k \in 1..(j - 1) : RLt(Dist(i, j), Dist(i, k))

Blend(b, m, w) ==
    MkBeat(RAdd(RMul(b.time, w), RMul(m.time, RSub(One, w))),
           b.position,
           RAdd(RMul(b.confidence, w), RMul(m.confidence, RSub(One, w))))

Attenuated(b, f) == MkBeat(b.time, b.position, RMul(b.confidence, f))

\* the beats of other some beat of tm was blended with
Consumed == {blended[i] : i \in 1..Len(blended)} \ {0}

----------------------------------------------------------------------------
(* Properties of merge_with, checked under SpecMerge *)

\* C1: each beat of other is blended with at most one beat of the receiver:
\* no two beats of the receiver are blended with the same beat of other.
C1_ConsumedOnce ==
    MergeOk =>
        \A i1, i2 \in 1..Len(blended) :
            (i1 < i2 /\ blended[i1] # 0) => blended[i2] # blended[i1]

\* C2: the candidate of a beat of the receiver is the nearest beat of other,
\* the earliest on ties; it is a match exactly when strictly less than 50 ms
\* away, and a match yields the blended beat with the receiver's position.
\* Two single-beat maps give one beat if matched and two if not.
C2_MatchRule ==
    MergeOk =>
        /\ \A i \in 1..Len(tm.beats) :
              IF RLt(Dist(i, Nearest(i)), Ms(50))
              THEN /\ blended[i] = Nearest(i)
                   /\ Has(result.beats,
                          Blend(tm.beats[i], other.beats[Nearest(i)], op.arg))
              ELSE blended[i] = 0
        /\ (Len(tm.beats) = 1 /\ Len(other.beats) = 1) =>
              Len(result.beats) = (IF RLt(Dist(1, 1), Ms(50)) THEN 1 ELSE 2)

\* two single-beat maps 40 ms apart merged into one beat
C2_Witness ==
    /\ MergeOk
    /\ op.arg = Norm(1, 2)
    /\ Len(tm.beats) = 1 /\ Len(other.beats) = 1
    /\ Dist(1, 1) = Ms(40)
    /\ tm.beats[1].position # other.beats[1].position
    /\ Len(result.beats) = 1

\* C3: a beat that takes part in no match keeps its time and position and has
\* its confidence multiplied by its source's weight: weight for the receiver,
\* 1 - weight for other.
C3_Unmatched ==
    MergeOk =>
        /\ \A i \in 1..Len(tm.beats) :
              blended[i] = 0 => Has(result.beats, Attenuated(tm.beats[i], op.arg))
        /\ \A j \in 1..Len(other.beats) :
              j \notin Consumed =>
                  Has(result.beats, Attenuated(other.beats[j], RSub(One, op.arg)))

\* a merge that left a beat of each map unmatched
C3_Witness ==
    /\ MergeOk
    /\ op.arg = Norm(1, 2)
    /\ \E i \in 1..Len(tm.beats) : blended[i] = 0
    /\ \E j \in 1..Len(other.beats) : j \notin Consumed

\* C4: with weight 1 every beat of the receiver is in the result unchanged.
C4_WeightOne ==
    (MergeOk /\ op.arg = One) =>
        \A i \in 1..Len(tm.beats) : Has(result.beats, tm.beats[i])

\* a merge with weight 1 where one beat matched and one did not
C4_Witness ==
    /\ MergeOk /\ op.arg = One
    /\ \E i \in 1..Len(blended) : blended[i] = 0
    /\ \E i \in 1..Len(blended) :
          /\ blended[i] # 0
          /\ other.beats[blended[i]].time # tm.beats[i].time

\* C5 as stated: with weight 0 every beat of other is in the result with its
\* time, position and confidence unchanged.
C5_WeightZeroOriginal ==
    (MergeOk /\ op.arg = Zero) =>
        \A j \in 1..Len(other.beats) : Has(result.beats, other.beats[j])

\* C5 amended: with weight 0 every beat of other is in the result with its
\* time and confidence unchanged; it keeps its position if no beat of the
\* receiver matched it, and has the position of each beat that matched it
\* otherwise.
C5_WeightZero ==
    (MergeOk /\ op.arg = Zero) =>
        /\ \A j \in 1..Len(other.beats) :
              j \notin Consumed => Has(result.beats, other.beats[j])
        /\ \A i \in 1..Len(tm.beats) :
              blended[i] # 0 =>
                  Has(result.beats,
                      MkBeat(other.beats[blended[i]].time, tm.beats[i].position,
                             other.beats[blended[i]].confidence))

\* a merge with weight 0 where a beat of other was matched by a beat of
\* another position, and another beat of other was not matched
C5_Witness ==
    /\ MergeOk /\ op.arg = Zero
    /\ \E j \in 1..Len(other.beats) : j \notin Consumed
    /\ \E i \in 1..Len(blended) :
          /\ blended[i] # 0
          /\ other.beats[blended[i]].position # tm.beats[i].position

\* C6: merge_with raises the validation error, and returns nothing, exactly
\* when the weight is below 0 or above 1.
C6_WeightRange ==
    MergeCalled =>
        IF op.arg[1] < 0 \/ op.arg[1] > op.arg[2]
        THEN err = "ValueError" /\ result = NoMap
        ELSE err = "none" /\ result # NoMap

\* a merge refused for its weight of 3/2
C6_Witness ==
    /\ MergeCalled /\ op.arg = Norm(3, 2)
    /\ err = "ValueError" /\ result = NoMap

\* C7: the tempo of the result is
\* tm.average_bpm * weight + other.average_bpm * (1 - weight).
C7_MergedBpm ==
    MergeOk =>
        LET w == op.arg
            p == tm.average_bpm
            o == other.average_bpm
            r == result.average_bpm
        IN  r[1] * (p[2] * o[2] * w[2])
              = r[2] * (p[1] * w[1] * o[2] + o[1] * (w[2] - w[1]) * p[2])

\* a merge of maps of different tempo with weight 1/2, some beat matched
C7_Witness ==
    /\ MergeOk /\ op.arg = Norm(1, 2)
    /\ tm.average_bpm # other.average_bpm
    /\ Consumed # {}

\* C8: the result has no tempo_curve, tempo_confidence or downbeats, and has
\* the receiver's time_signature.
C8_MergedFields ==
    MergeOk =>
        /\ result.tempo_curve = None
        /\ result.tempo_confidence = None
        /\ result.downbeats = None
        /\ result.time_signature = tm.time_signature

\* a merge of two maps that both carry curves, downbeats and a time signature
C8_Witness ==
    /\ MergeOk
    /\ tm.tempo_curve # None /\ other.tempo_curve # None
    /\ tm.downbeats # None /\ other.downbeats # None
    /\ tm.time_signature # None /\ other.time_signature # None
    /\ tm.time_signature # other.time_signature

----------------------------------------------------------------------------
(* Properties of construction, checked under SpecBeat and Spec *)

Sorted(s) == \A i \in 1..(Len(s) - 1) : RLe(s[i].time, s[i + 1].time)

\* C9: the beats of every TempoMap, constructed from a list in any order or
\* returned by filter_by_confidence, quantize_to_grid or merge_with, are in
\* non-decreasing order of time.
C9_SortInvariant == Sorted(result.beats) /\ Sorted(tm.beats)

\* a merge, on a receiver that is itself the result of a transform, whose
\* beats were not in order before the final sort
C9_Witness ==
    /\ MergeOk
    /\ depth >= 2
    /\ ~Sorted(MergedUnsorted(tm, other, op.arg))
    /\ Len(result.beats) >= 3

\* C10: Beat(time, position, confidence) raises the validation error exactly
\* when time < 0, position < 1, confidence < 0 or confidence > 1, and returns
\* the beat with these three values otherwise.
C10_BeatValidation ==
    op.name = "Beat" =>
        LET b == op.input[1]
        IN  IF \/ b.time[1] < 0
               \/ b.position < 1
               \/ b.confidence[1] < 0
               \/ b.confidence[1] > b.confidence[2]
            THEN err = "ValueError" /\ beat = NoBeat
            ELSE err = "none" /\ beat = b

\* the beat of time 0, position 1 and confidence 1 was accepted
C10_Witness ==
    /\ op.name = "Beat"
    /\ op.input[1] = MkBeat(Zero, 1, One)
    /\ err = "none"
    /\ beat = MkBeat(Zero, 1, One)

----------------------------------------------------------------------------
(* Properties of TempoMap construction, checked under SpecNew *)

NewCalled == op.name = "TempoMap"

\* C11: TempoMap(...) raises the validation error exactly when the beat list
\* is empty, or tempo_curve and tempo_confidence are both given and differ in
\* length; otherwise it returns a map with the fields given.
C11_MapValidation ==
    NewCalled =>
        LET f == op.fields
            bothGiven == Len(f.tempo_curve) = 1 /\ Len(f.tempo_confidence) = 1
        IN  IF \/ Len(op.input) = 0
               \/ (bothGiven /\ Len(f.tempo_curve[1]) # Len(f.tempo_confidence[1]))
            THEN err = "ValueError" /\ result = NoMap
            ELSE /\ err = "none"
                 /\ Len(result.beats) = Len(op.input)
                 /\ result.average_bpm = f.average_bpm
                 /\ result.tempo_curve = f.tempo_curve
                 /\ result.tempo_confidence = f.tempo_confidence

\* a map constructed with a tempo_curve and no tempo_confidence
C11_Witness ==
    /\ NewCalled
    /\ op.fields.tempo_curve # None /\ op.fields.tempo_confidence = None
    /\ Len(op.input) = 2
    /\ err = "none" /\ result # NoMap


----------------------------------------------------------------------------
(* Properties of filter_by_confidence *)

FilterCalled == op.name = "filter_by_confidence"
FilterOk == FilterCalled /\ err = "none"

\* the indices of the beats of tm whose confidence is at least the threshold
Kept == {i \in 1..Len(tm.beats) : RLe(op.arg, tm.beats[i].confidence)}

\* the place among the kept beats of the kept beat i
Rank(i) == Cardinality({k \in Kept : k <= i})

\* C12: filter_by_confidence returns exactly the beats whose confidence is at
\* least the threshold (equal included), each unchanged, in the order they
\* have in the receiver
C12_FilterKeeps ==
    FilterOk =>
        /\ Len(result.beats) = Cardinality(Kept)
        /\ \A i \in Kept : result.beats[Rank(i)] = tm.beats[i]

\* a beat at the threshold is kept, a beat below it dropped, and two kept
\* beats of the same time stay in their order
C12_Witness ==
    /\ FilterOk
    /\ \E i \in Kept : tm.beats[i].confidence = op.arg
    /\ Cardinality(Kept) < Len(tm.beats)
    /\ Len(result.beats) = 2
    /\ result.beats[1].time = result.beats[2].time
    /\ result.beats[1] # result.beats[2]

\* C13: when no beat has a confidence of at least the threshold,
\* filter_by_confidence raises ValueError and returns no map
C13_FilterExhausted ==
    (FilterCalled /\ Kept = {}) => (err = "ValueError" /\ result = NoMap)

C13_Witness ==
    /\ FilterCalled /\ Kept = {}
    /\ Len(tm.beats) = 2
    /\ err = "ValueError"


\* 60 / mean(consecutive intervals of s): the intervals of n beats add up to
\* the last time minus the first, and there are n - 1 of them
BpmOfMeanInterval(s) ==
    RDiv(R(60 * (Len(s) - 1)), RSub(s[Len(s)].time, s[1].time))

\* C14: after filter_by_confidence the average_bpm is 60 / mean(intervals of
\* the retained beats) when two or more beats remain, and the receiver's
\* average_bpm when exactly one remains
C14_FilterBpm ==
    FilterOk =>
        IF Len(result.beats) >= 2
        THEN result.average_bpm = BpmOfMeanInterval(result.beats)
        ELSE result.average_bpm = tm.average_bpm


----------------------------------------------------------------------------
(* Properties of quantize_to_grid *)

QuantizeCalled == op.name = "quantize_to_grid"
QuantizeOk == QuantizeCalled /\ err = "none"

\* q is a whole multiple of the grid g and no multiple of g is nearer to t
NearestMultiple(q, t, g) ==
    /\ RDiv(q, g)[2] = 1
    /\ RLe(RMul(R(2), RAbs(RSub(t, q))), g)

\* C15: for a positive grid quantize_to_grid returns as many beats as the
\* receiver has; beat i of the result is beat i of the receiver moved to the
\* nearest multiple of the grid (530 ms to 500 ms and 1270 ms to 1250 ms on a
\* grid of 250 ms) with its position and confidence; beats that land on the
\* same grid point are all kept
C15_Quantize ==
    (QuantizeCalled /\ RLt(Zero, op.arg)) =>
        /\ err = "none"
        /\ Len(result.beats) = Len(tm.beats)
        /\ \A i \in 1..Len(tm.beats) :
              LET b == tm.beats[i]
                  q == result.beats[i]
              IN  /\ NearestMultiple(q.time, b.time, op.arg)
                  /\ q.position = b.position
                  /\ q.confidence = b.confidence
                  /\ (op.arg = Norm(1, 4) /\ b.time = Ms(530)) => q.time = Ms(500)
                  /\ (op.arg = Norm(1, 4) /\ b.time = Ms(1270)) => q.time = Ms(1250)

\* two beats of different times land on the same grid point and both are kept
C15_Witness ==
    /\ QuantizeOk /\ op.arg = Norm(1, 4)
    /\ Len(tm.beats) = 3
    /\ tm.beats[1].time = Ms(375) /\ tm.beats[2].time = Ms(530)
    /\ tm.beats[3].time = Ms(1270)
    /\ Len(result.beats) = 3
    /\ result.beats[1].time = Ms(500) /\ result.beats[2].time = Ms(500)
    /\ result.beats[3].time = Ms(1250)


\* the optional fields of the map a are those of the map b
SameOptionalFields(a, b) ==
    /\ a.tempo_curve = b.tempo_curve
    /\ a.tempo_confidence = b.tempo_confidence
    /\ a.downbeats = b.downbeats
    /\ a.time_signature = b.time_signature

\* C16: the result of filter_by_confidence and of quantize_to_grid has the
\* receiver's tempo_curve, tempo_confidence, downbeats and time_signature, and
\* the result of quantize_to_grid has the receiver's average_bpm too
C16_Carried ==
    /\ (FilterOk \/ QuantizeOk) => SameOptionalFields(result, tm)
    /\ QuantizeOk => result.average_bpm = tm.average_bpm

\* a receiver with every optional field given, whose beats the call moved
C16_Witness ==
    /\ QuantizeOk
    /\ tm.tempo_curve # None /\ tm.tempo_confidence # None
    /\ tm.downbeats # None /\ tm.time_signature = Some(<<3, 4>>)
    /\ result.beats # tm.beats
    /\ SameOptionalFields(result, tm)


----------------------------------------------------------------------------
(* The transforms leave their inputs alone *)

TransformNames == {"filter_by_confidence", "quantize_to_grid", "merge_with"}

----------------------------------------------------------------------------
(* Properties of EnsembleDetector.detect *)

DetectCalled == op.name = "detect"

\* the detectors whose call returned a TempoMap
Succeeded == {i \in 1..Len(ens.outcomes) : ens.outcomes[i].ok}

\* the place among the successful detectors of the successful detector i
SurvivorRank(i) == Cardinality({k \in Succeeded : k <= i})

\* the maps of the successful detectors with the weights of their names, in
\* the order of the configuration
Survivors ==
    [k \in 1..Cardinality(Succeeded) |->
        LET i == CHOOSE j \in Succeeded : SurvivorRank(j) = k
        IN  <<ens.outcomes[i].val, get_detector_weight(ens.detectors[i])>>]

\* C18: detect calls every configured detector, in order and with the audio
\* it was given, whatever the earlier detectors did; it collects the maps of
\* the detectors that returned and no other; and when at least one returned
\* it returns the combination of the collected maps and does not raise
C18_PartialFailure ==
    (DetectCalled /\ ens.detectors # <<>>) =>
        /\ Len(ens.invoked) = Len(ens.detectors)
        /\ \A i \in 1..Len(ens.detectors) :
              ens.invoked[i] = [name |-> ens.detectors[i], audio |-> ens.audio]
        /\ ens.results = Survivors
        /\ Len(ens.warnings) = Len(ens.detectors) - Cardinality(Succeeded)
        /\ Succeeded # {} =>
              /\ err = "none"
              /\ result # NoMap
              /\ result = combine_results(Survivors).val

\* the first detector failed and the two after it returned
C18_Witness ==
    /\ DetectCalled
    /\ Len(ens.detectors) = 3
    /\ Succeeded = {2, 3}
    /\ ens.detectors[2] # ens.detectors[3]
    /\ err = "none"
    /\ Len(result.beats) >= 3

\* C19: when every configured detector fails, detect raises RuntimeError,
\* which is not an AlgorithmError, and the exception carries the reasons of
\* the failures of the detectors
C19_AllFailed ==
    (DetectCalled /\ ens.detectors # <<>> /\ Succeeded = {}) =>
        /\ err = "RuntimeError"
        /\ err # "AlgorithmError"
        /\ ens.reasons = {ens.outcomes[i].exc : i \in 1..Len(ens.outcomes)}

\* C20: when exactly one configured detector returns, detect returns the map
\* of that detector as it is: beats, confidences, average_bpm and optional
\* fields
C20_SingleSurvivor ==
    (DetectCalled /\ Cardinality(Succeeded) = 1) =>
        /\ err = "none"
        /\ result = ens.outcomes[CHOOSE i \in Succeeded : TRUE].val

\* of three detectors only the second, librosa of weight 0.6, returned
C20_Witness ==
    /\ DetectCalled
    /\ Len(ens.detectors) = 3
    /\ Succeeded = {2}
    /\ ens.detectors[2] = "librosa"
    /\ Len(result.beats) = 3
    /\ \A i \in 1..3 : result.beats[i].confidence = Norm(8, 10)


----------------------------------------------------------------------------
(* Properties of _combine_results *)

CombineCalled == op.name = "_combine_results"

\* the orders in which the collected pairs can be listed
Perms(n) == {p \in [1..n -> 1..n] : \A i, j \in 1..n : p[i] = p[j] => i = j}

\* the collected pairs in the order p
Permuted(p) == [i \in 1..Len(ens.results) |-> ens.results[p[i]]]

\* the order p exchanges no two pairs of equal weight and different maps
KeepsTies(p) ==
    \A i, j \in 1..Len(ens.results) :
        (i < j /\ p[i] > p[j] /\ ens.results[p[i]][2] = ens.results[p[j]][2])
            => ens.results[p[i]][1] = ens.results[p[j]][1]

C22_FoldOrder ==
    (CombineCalled /\ Len(ens.results) >= 2) =>
        LET s == ens.sorted
            f == ens.folds
            n == Len(ens.results)
        IN  /\ \E p \in Perms(n) : Permuted(p) = s
            /\ \A i \in 1..(n - 1) : RLe(s[i + 1][2], s[i][2])
            /\ Len(f) = n - 1
            /\ f[1].accumulator = s[1][1]
            /\ f[1].total_weight = s[1][2]
            /\ \A k \in 1..(n - 1) :
                  /\ f[k].tempo_map = s[k + 1][1]
                  /\ f[k].weight =
                        RSub(One, RDiv(s[k + 1][2],
                                       RAdd(f[k].total_weight, s[k + 1][2])))
                  /\ f[k].merged =
                        merge_with(f[k].accumulator, f[k].tempo_map, f[k].weight)
                  /\ k < n - 1 =>
                        /\ f[k + 1].accumulator = f[k].merged.val
                        /\ f[k + 1].total_weight =
                              RAdd(f[k].total_weight, s[k + 1][2])
            /\ err = "none"
            /\ result = f[n - 1].merged.val

\* three results whose heaviest was collected last: two merges were made
C22_Witness ==
    /\ CombineCalled
    /\ Len(ens.folds) = 2
    /\ ens.sorted[1] = ens.results[3]
    /\ RLt(ens.sorted[3][2], ens.sorted[2][2])
    /\ RLt(ens.sorted[2][2], ens.sorted[1][2])
    /\ result = ens.folds[2].merged.val


\* C23: when the call of a configured detector raises a validation failure
\* (ValueError, as for a TempoMap built from an empty beat list), detect
\* raises that failure and returns no map
C23_ValidationPropagates ==
    (DetectCalled /\ \E i \in 1..Len(ens.outcomes) :
                        ens.outcomes[i].exc = "ValueError")
        => (err = "ValueError" /\ result = NoMap)


\* C24: detect of an ensemble without detectors raises ValueError and calls
\* no detector; an ensemble has no detectors when ensemble_algorithms is
\* empty and when every name in it is unknown
C24_NoDetectors ==
    (DetectCalled /\ \A i \in 1..Len(ens.algorithms) :
                        ens.algorithms[i] \notin DetectorNames)
        => /\ ens.detectors = <<>>
           /\ err = "ValueError"
           /\ result = NoMap
           /\ ens.invoked = <<>>

\* two names were configured, both unknown
C24_Witness ==
    /\ DetectCalled
    /\ Len(ens.algorithms) = 2
    /\ ens.detectors = <<>>
    /\ err = "ValueError"


----------------------------------------------------------------------------
(* Properties of the derived properties *)

\* C25: for every constructed map, one with two beats at the same time
\* included, duration is the greatest beat time, beat_intervals has
\* len(beats) - 1 entries, none negative, and instantaneous_bpm has for every
\* interval the finite value 60 / interval; both are empty exactly when the
\* map has one beat
C25_Derived ==
    derived.read =>
        LET n == Len(tm.beats)
            iv == derived.intervals
            bpm == derived.bpms
        IN  /\ \A i \in 1..n : RLe(tm.beats[i].time, derived.dur)
            /\ \E i \in 1..n : tm.beats[i].time = derived.dur
            /\ Len(iv) = n - 1
            /\ \A i \in 1..Len(iv) : RLe(Zero, iv[i])
            /\ Len(bpm) = Len(iv)
            /\ \A i \in 1..Len(bpm) :
                  /\ bpm[i][2] # 0
                  /\ RMul(bpm[i], iv[i]) = R(60)
            /\ (iv = <<>>) <=> (n = 1)


----------------------------------------------------------------------------
(* Properties of AudioAnalyzer.analyze *)

\* C26: when the detector returned beats and confidence_threshold is above
\* the confidence of every one of them (librosa's 0.8 under a threshold of
\* 0.85), analyze returns an AnalysisResult and does not raise
C26_AnalyzeReturns ==
    (/\ analysis.called
     /\ analysis.detected # NoMap
     /\ \A i \in 1..Len(analysis.detected.beats) :
           RLt(analysis.detected.beats[i].confidence,
               analysis.confidence_threshold))
        => (analysis.returned /\ analysis.exc = "none")


----------------------------------------------------------------------------
(* Properties of BatchProcessor.process_files *)

\* the files whose output existed when process_files was called
SkippedFiles == {f \in FilesOf(batch.files) : f \in batch.existed}

\* C27: after process_files returns, sequential or parallel, with
\* skip_existing on, there is exactly one BatchResult for every input file,
\* no file whose output existed was analyzed, and skipped_count is the
\* number of the files that were skipped
C27_BatchSkips ==
    (batch.returned /\ batch.skip_existing) =>
        /\ Len(batch.results) = Len(batch.files)
        /\ \A f \in FilesOf(batch.files) :
              Cardinality({i \in 1..Len(batch.results) :
                              batch.results[i].file_path = f}) = 1
        /\ batch.analyzed \cap SkippedFiles = {}
        /\ batch.skipped_count = Cardinality(SkippedFiles)


----------------------------------------------------------------------------
(* Closure of the invariants of the data model *)

\* every beat of s has time >= 0, position >= 1 and confidence in [0, 1]
BeatsInRange(s) ==
    \A i \in 1..Len(s) :
        /\ RLe(Zero, s[i].time)
        /\ s[i].position >= 1
        /\ RLe(Zero, s[i].confidence) /\ RLe(s[i].confidence, One)

\* C28: along every chain of construction, filter_by_confidence,
\* quantize_to_grid and merge_with, every map has beats of time >= 0,
\* position >= 1 and confidence in [0, 1], and merge_with with a weight in
\* [0, 1] does not raise
C28_Closure ==
    /\ BeatsInRange(tm.beats)
    /\ BeatsInRange(other.beats)
    /\ BeatsInRange(result.beats)
    /\ (MergeCalled /\ RLe(Zero, op.arg) /\ RLe(op.arg, One))
          => (err = "none" /\ result # NoMap)

\* a map that came out of two transforms is merged with a blend
C28_Witness ==
    /\ MergeOk
    /\ depth = 2
    /\ RLt(Zero, op.arg) /\ RLt(op.arg, One)
    /\ \E i \in 1..Len(blended) : blended[i] # 0
    /\ Len(result.beats) >= 2


\* the sum of the weights of the pairs s
RECURSIVE WeightSum(_)
WeightSum(s) == IF s = <<>> THEN Zero ELSE RAdd(Head(s)[2], WeightSum(Tail(s)))

\* the sum of weight * average_bpm over the pairs s
RECURSIVE WeightedBpmSum(_)
WeightedBpmSum(s) ==
    IF s = <<>> THEN Zero
    ELSE RAdd(RMul(Head(s)[2], Head(s)[1].average_bpm), WeightedBpmSum(Tail(s)))

\* C29: with two or more results the average_bpm of the combined map is the
\* mean of the results' average_bpm weighted by their weights, and every
\* weight passed to merge_with lies strictly between 0 and 1
C29_WeightedBpm ==
    (CombineCalled /\ Len(ens.results) >= 2) =>
        /\ err = "none"
        /\ result.average_bpm =
              RDiv(WeightedBpmSum(ens.results), WeightSum(ens.results))
        /\ \A k \in 1..Len(ens.folds) :
              RLt(Zero, ens.folds[k].weight) /\ RLt(ens.folds[k].weight, One)

\* three results of three tempos and three weights
C29_Witness ==
    /\ CombineCalled
    /\ Len(ens.results) = 3
    /\ Cardinality({ens.results[i][2] : i \in 1..3}) = 3
    /\ Cardinality({ens.results[i][1].average_bpm : i \in 1..3}) = 3
    /\ \A i \in 1..3 : result.average_bpm # ens.results[i][1].average_bpm


----------------------------------------------------------------------------
(* Beat conservation in merge_with, checked under SpecMerge *)

\* beat i of the receiver has a beat of other less than 50 ms away
IsMatched(i) == LET j == Nearest(i) IN RLt(Dist(i, j), Ms(50))

\* the beats of other that are the match of some beat of the receiver
Matched == {Nearest(i) : i \in {k \in 1..Len(tm.beats) : IsMatched(k)}}

\* the beat that beat i of the receiver yields
YieldOfSelf(i) ==
    IF IsMatched(i)
    THEN Blend(tm.beats[i], other.beats[Nearest(i)], op.arg)
    ELSE Attenuated(tm.beats[i], op.arg)

\* the beat that the unmatched beat j of other yields
YieldOfOther(j) == Attenuated(other.beats[j], RSub(One, op.arg))

\* what the first n beats of the receiver yield, in order
RECURSIVE YieldsOfSelf(_)
YieldsOfSelf(n) ==
    IF n = 0 THEN <<>> ELSE Append(YieldsOfSelf(n - 1), YieldOfSelf(n))

\* what the first m beats of other would yield unmatched, in order
RECURSIVE YieldsOfOther(_)
YieldsOfOther(m) ==
    IF m = 0 THEN <<>> ELSE Append(YieldsOfOther(m - 1), YieldOfOther(m))

Max(a, b) == IF a >= b THEN a ELSE b

\* C30: the result of merge_with has len(self) + len(other) beats less the
\* number of different beats of other that were matched, which is at least
\* the longer length and at most the sum; every beat of the receiver yields
\* exactly one beat of the result, every unmatched beat of other exactly
\* one, and every matched beat of other is part of at least one blend
C30_Conservation ==
    MergeOk =>
        LET n == Len(tm.beats)
            m == Len(other.beats)
            matched == Matched
            unmatched == (1..m) \ matched
            ofSelf == YieldsOfSelf(n)
            ofOther == YieldsOfOther(m)
        IN  /\ Len(result.beats) = n + m - Cardinality(matched)
            /\ Len(result.beats) >= Max(n, m)
            /\ Len(result.beats) <= n + m
            /\ \A k \in 1..Len(result.beats) :
                  Cardinality({l \in 1..Len(result.beats) :
                                  result.beats[l] = result.beats[k]})
                    = Cardinality({i \in 1..n : ofSelf[i] = result.beats[k]})
                      + Cardinality({j \in unmatched :
                                        ofOther[j] = result.beats[k]})
            /\ \A j \in matched :
                  \E i \in 1..n : Nearest(i) = j /\ IsMatched(i)
                                     /\ Has(result.beats, ofSelf[i])

\* two beats of the receiver matched the same beat of other, and the other
\* beat of other was matched by none: three beats result
C30_Witness ==
    /\ MergeOk
    /\ Len(tm.beats) = 2 /\ Len(other.beats) = 2
    /\ IsMatched(1) /\ IsMatched(2) /\ Nearest(1) = Nearest(2)
    /\ Cardinality(Matched) = 1
    /\ Len(result.beats) = 3

====
